---- MODULE Spec2Model ----
(***************************************************************************)
(* Model of the interval engine of the F1 dashboard                        *)
(* (src/data_processor.py): the IntervalCalculator's two stores, its       *)
(* ingest operations and the queries computed from the lap store.          *)
(*                                                                         *)
(* A DataFrame is a sequence of rows (records); the row order is the one   *)
(* pandas keeps.  Times are integers counted in ticks of 0.1 s, so that    *)
(* the 0.1 s trend threshold is one tick.  NaN / None is the empty tuple   *)
(* <<>>, a present number x is <<x>> and a mean is <<sum, count>>.         *)
(*                                                                         *)
(* Every record lists its fields in the order in which the field names     *)
(* first occur in this module, which is the order TLC keeps them in: the   *)
(* rows of a state are then never rearranged while a worker reads them.    *)
(***************************************************************************)
EXTENDS Integers, Sequences, FiniteSets, TLC

VARIABLES
    lap_data,        \* IntervalCalculator.lap_data: sequence of lap rows
    position_data,   \* IntervalCalculator.position_data: sequence of position rows
    call,            \* the last operation called and its argument
    latest_lap,      \* history: for each lap key, the record ingested last
    fetcher          \* F1DataFetcher: current_session_key, drivers, driver_numbers

vars == <<lap_data, position_data, call, latest_lap, fetcher>>

(***************************************************************************)
(* Bounds of the model.                                                    *)
(***************************************************************************)
MaxLap == 2          \* lap numbers 1..MaxLap in free-form ingestion
MaxRows == 4         \* free-form ingestion stops filling the lap store at MaxRows rows

RaceLaps == 4        \* laps of the race ingested lap by lap
MaxGap == 2          \* the second car crosses within MaxGap ticks of the first
LapTicks == 900      \* the pace of the reference car in the race: 90 s a lap

Drivers == {1, 2}
Laps == 1..MaxLap
Times == {0, 1}

\* The running order reported with a crossing: the earlier tick is P1, the later P2.
PositionAt(t) == t + 1

NaN == <<>>

LapRecord(d, l, t, p) ==
    [driver_number |-> d, lap_number |-> l, date_start |-> t, position |-> p]

LapRecords ==
    {LapRecord(d, l, t, PositionAt(t)) : d \in Drivers, l \in Laps, t \in Times}

\* The batches (DataFrames) handed to update_lap_data in free-form ingestion: empty,
\* one row, or two rows of one lap (the same key twice, or both drivers' crossings).
LapBatches ==
    {<<>>} \cup {<<r>> : r \in LapRecords}
        \cup {b \in {<<r, s>> : r \in LapRecords, s \in LapRecords} :
                    b[1].lap_number = b[2].lap_number}

\* A 'date' cell of a position row: an instant, either raw (the string of the API
\* response) or normalized (a Timestamp, after pd.to_datetime).
Date(t, raw) == [raw |-> raw, instant |-> t]

PositionRecord(d, date, p) == [driver_number |-> d, position |-> p, date |-> date]

PositionRecords(raw) ==
    {PositionRecord(d, Date(t, raw), p) : d \in Drivers, t \in Times, p \in {1, 2}}

\* The batches handed to update_position_data: empty, one row or two rows, the dates
\* all raw (F1DataFetcher.get_position_data) or all normalized
\* (SessionRecorder.get_position_dataframe).
PositionBatches ==
    {<<>>} \cup UNION {{<<r>> : r \in PositionRecords(raw)}
                            \cup {<<r, s>> : r \in PositionRecords(raw), s \in PositionRecords(raw)} :
                        raw \in BOOLEAN}

\* The batches of a race followed lap by lap: the crossings of both cars for the lap
\* after the last one stored.  Car 1 keeps an even pace, car 2 crosses up to MaxGap
\* ticks before or after it; the car that crosses first is P1.
RaceBatches(df) ==
    LET lap == (Len(df) \div 2) + 1
        t1 == lap * LapTicks
    IN  IF lap > RaceLaps THEN {}
        ELSE {<<LapRecord(1, lap, t1, IF g >= 0 THEN 1 ELSE 2),
                LapRecord(2, lap, t1 + g, IF g >= 0 THEN 2 ELSE 1)>> : g \in (-MaxGap)..MaxGap}

\* The frames of a session loaded at once (the historical session of the
\* dashboard): car 1 has crossed the line up to PaceLaps times, first at tick 0 and
\* then after a lap time out of Paces for every lap, and its rows come in any order;
\* car 2 has crossed up to twice, 60 s or 120 s apart, its rows in lap order after
\* those of car 1.
PaceLaps == 4

\* lap times in ticks: 1 s and 169 s are far outside the reasonable range, 60 s and
\* 150 s are its two ends, 90 s and 120 s are inside
Paces == {10, 600, 900, 1200, 1500, 1690}

\* the crossing times of laps 1..n after the lap times pace[2], ..., pace[n]
RECURSIVE CrossingTime(_, _)
CrossingTime(pace, l) == IF l = 1 THEN 0 ELSE CrossingTime(pace, l - 1) + pace[l]

\* the row orders of a response: the laps 1..n ascending or descending, starting
\* from any lap and wrapping round
LapOrders(n) ==
    {[i \in 1..n |-> ((i - 1 + k) % n) + 1] : k \in 0..n}
        \cup {[i \in 1..n |-> n - ((i - 1 + k) % n)] : k \in 0..n}

CarFrames(d, n, orders, paces) ==
    {[i \in 1..n |-> LapRecord(d, order[i], CrossingTime(pace, order[i]), d)] :
        order \in orders, pace \in [2..n -> paces]}

SessionFrames ==
    LET car1 == UNION {CarFrames(1, n, LapOrders(n), Paces) : n \in 0..PaceLaps}
        car2 == UNION {CarFrames(2, n, {[i \in 1..n |-> i]}, {600, 1200}) : n \in 0..2}
    IN  {f \o g : f \in car1, g \in car2} \ {<<>>}

\* A lap_number cell left empty by pd.DataFrame(data) for a record of the response
\* that has no lap_number (NaN; drop_duplicates takes NaN keys as equal).  The laps
\* of the API count from 1.
MissingLap == 0

\* The frames of a response with a record that lacks lap_number beside a
\* well-formed record: the frame has the column, one cell is empty.
MalformedBatches ==
    LET good == {LapRecord(d, l, 0, d) : d \in Drivers, l \in Laps}
        bad == {LapRecord(d, MissingLap, 0, d) : d \in Drivers}
    IN  {<<g>> : g \in good} \cup {<<g, b>> : g \in good, b \in bad}
            \cup {<<b, g>> : g \in good, b \in bad}

\* The sessions of the API, and the laps response of one of them: the rows carry
\* the session_key of the request, car 1's laps 1..n1 then car 2's laps 1..n2.
SessionKeys == {1, 2}

SessionLapRecord(k, d, l) ==
    [driver_number |-> d, lap_number |-> l, date_start |-> l * LapTicks + k,
     position |-> d, session_key |-> k]

SessionLaps(k) ==
    {[i \in 1..(n1 + n2) |-> IF i <= n1 THEN SessionLapRecord(k, 1, i)
                                         ELSE SessionLapRecord(k, 2, i - n1)] :
        n1 \in 0..MaxLap, n2 \in 0..MaxLap}

\* A drivers record of the API for a session, and the answers of _make_request to
\* the sessions and the drivers request of a session: the list of the response, or
\* None after RETRY_ATTEMPTS failures.  None and the empty list are both <<>>:
\* the code only tests them with "if not data".
DriverRecord(k, n, a) == [driver_number |-> n, session_key |-> k, name_acronym |-> a]

SessionsResponses(k) == {<<>>, <<[session_key |-> k]>>}

DriversResponses(k) ==
    LET records == {DriverRecord(k, 1, "VER"), DriverRecord(k, 2, "HAM")}
    IN  {<<>>} \cup {<<r>> : r \in records} \cup {<<r, q>> : r \in records, q \in records}

\* The arguments of the RaceAnalyzer functions: intervals and lap times in ticks,
\* closing rates in ticks a lap.
CatchIntervals == {-50, -15, -10, 0, 15, 50}
CatchRates == {-5, -2, 0, 2, 5}
CurrentLaps == {0, 10}
TotalLaps == {15, 17, 58}
GapLapTimes == {-900, 0, 850, 900}

(***************************************************************************)
(* DataFrame helpers.                                                      *)
(***************************************************************************)
\* pd.concat([df, new_data], ignore_index=True)
Concat(df, new_data) == df \o new_data

LapKey(r) == <<r.driver_number, r.lap_number>>

\* the rows of a frame, as a set
Rows(df) == {df[i] : i \in 1..Len(df)}

LapDropDuplicatesFirst(df) ==
    LET F[i \in 0..Len(df)] ==
            IF i = 0 THEN <<>>
            ELSE IF \E j \in 1..(i - 1) : LapKey(df[j]) = LapKey(df[i])
                 THEN F[i - 1]
                 ELSE Append(F[i - 1], df[i])
    IN  F[Len(df)]

\* df.drop_duplicates(subset=['driver_number', 'lap_number'], keep='last'):
\* a row stays iff no later row has its key; the remaining rows keep their order.
LapDropDuplicates(df) ==
    LET F[i \in 0..Len(df)] ==
            IF i = 0 THEN <<>>
            ELSE IF \E j \in (i + 1)..Len(df) : LapKey(df[j]) = LapKey(df[i])
                 THEN F[i - 1]
                 ELSE Append(F[i - 1], df[i])
    IN  F[Len(df)]

PositionKey(r) == <<r.driver_number, r.date>>

\* df.drop_duplicates(subset=['driver_number', 'date'], keep='last'); a raw date is
\* a string and never equal to a Timestamp, also when they denote the same instant.
PositionDropDuplicates(df) ==
    LET F[i \in 0..Len(df)] ==
            IF i = 0 THEN <<>>
            ELSE IF \E j \in (i + 1)..Len(df) : PositionKey(df[j]) = PositionKey(df[i])
                 THEN F[i - 1]
                 ELSE Append(F[i - 1], df[i])
    IN  F[Len(df)]

\* df['date'] = pd.to_datetime(df['date'])
ToDatetime(df) ==
    [i \in 1..Len(df) |-> [df[i] EXCEPT !.date = Date(df[i].date.instant, FALSE)]]

\* The value of self.position_data after update_position_data(new_data).
MergePositionData(df, new_data) ==
    IF new_data = <<>> THEN df
    ELSE ToDatetime(PositionDropDuplicates(Concat(df, new_data)))

ReplaceLapData(df, new_data) ==
    IF new_data = <<>> THEN df ELSE LapDropDuplicates(new_data)

\* The value of self.lap_data after update_lap_data(new_data).
MergeLapData(df, new_data) ==
    IF new_data = <<>> THEN df ELSE LapDropDuplicates(Concat(df, new_data))

\* history: the last record ingested for every key
LatestAfter(latest, new_data) ==
    LET n == Len(new_data)
        keys == {LapKey(new_data[i]) : i \in 1..n}
    IN  {r \in latest : LapKey(r) \notin keys}
            \cup {new_data[i] : i \in {j \in 1..n :
                        \A k \in (j + 1)..n : LapKey(new_data[k]) # LapKey(new_data[j])}}

(***************************************************************************)
(* Queries on the lap store.                                               *)
(***************************************************************************)
Window == 3            \* rolling(window=3), tail(3), len(history) >= 3
TrendThreshold == 1    \* 0.1 s, in ticks

\* df[df['driver_number'] == d]
DriverLaps(df, d) == SelectSeq(df, LAMBDA r : r.driver_number = d)

MergedRow(x, y) ==
    [lap_number |-> x.lap_number,
     date_start_d1 |-> x.date_start, position_d1 |-> x.position,
     date_start_d2 |-> y.date_start, position_d2 |-> y.position]

MergeByIndex(left, right) ==
    LET n == IF Len(left) < Len(right) THEN Len(left) ELSE Len(right)
    IN  [i \in 1..n |-> MergedRow(left[i], right[i])]

\* pd.merge(left, right, on='lap_number', suffixes=('_d1', '_d2')): the inner join,
\* not sorted; the rows follow the order of the left frame's keys.
Merge(left, right) ==
    LET Matches(x) ==
            LET G[j \in 0..Len(right)] ==
                    IF j = 0 THEN <<>>
                    ELSE IF right[j].lap_number = x.lap_number
                         THEN Append(G[j - 1], MergedRow(x, right[j]))
                         ELSE G[j - 1]
            IN  G[Len(right)]
        F[i \in 0..Len(left)] ==
            IF i = 0 THEN <<>> ELSE F[i - 1] \o Matches(left[i])
    IN  F[Len(left)]

IntervalReversed(m) == m.date_start_d1 - m.date_start_d2

\* (date_start_d2 - date_start_d1).total_seconds(), in ticks
Interval(m) == m.date_start_d2 - m.date_start_d1

\* Series.diff(): NaN for the first row, then x[i] - x[i-1]
Diff(x) == [i \in 1..Len(x) |-> IF i = 1 THEN NaN ELSE <<x[i] - x[i - 1]>>]

\* the sum of a sequence of present numbers <<v>>
RECURSIVE SumOf(_)
SumOf(x) == IF x = <<>> THEN 0 ELSE x[1][1] + SumOf(Tail(x))

RollingMeanOfPresent(x, w) ==
    [i \in 1..Len(x) |->
        LET present == SelectSeq(SubSeq(x, IF i > w THEN i - w + 1 ELSE 1, i),
                                 LAMBDA v : v # NaN)
        IN  IF i < w \/ present = <<>> THEN NaN ELSE <<SumOf(present), Len(present)>>]

\* Series.rolling(window=w).mean(): min_periods is w, so the mean exists only where
\* the window is full and holds no NaN.
RollingMean(x, w) ==
    [i \in 1..Len(x) |->
        IF i < w \/ \E j \in (i - w + 1)..i : x[j] = NaN
        THEN NaN
        ELSE <<SumOf(SubSeq(x, i - w + 1, i)), w>>]

\* Series.tail(n).mean(): the mean of the values present among the last n (NaN is
\* skipped), NaN when none is present.
TailMean(x, n) ==
    LET t == SubSeq(x, IF Len(x) > n THEN Len(x) - n + 1 ELSE 1, Len(x))
        present == SelectSeq(t, LAMBDA v : v # NaN)
    IN  IF present = <<>> THEN NaN ELSE <<SumOf(present), Len(present)>>

MeanLessOrEqual(m, c) == m # NaN /\ m[1] <= c * m[2]

\* mean < c and mean > c for a mean <<sum, count>>; a comparison with NaN is false
MeanLess(m, c) == m # NaN /\ m[1] < c * m[2]
MeanGreater(m, c) == m # NaN /\ m[1] > c * m[2]

\* IntervalCalculator.calculate_interval_history(driver1_num, driver2_num) on a store
IntervalHistory(df, driver1_num, driver2_num) ==
    IF df = <<>> THEN <<>>
    ELSE LET d1_laps == DriverLaps(df, driver1_num)
             d2_laps == DriverLaps(df, driver2_num)
         IN  IF d1_laps = <<>> \/ d2_laps = <<>> THEN <<>>
             ELSE LET merged == Merge(d1_laps, d2_laps)
                      interval == [i \in 1..Len(merged) |-> Interval(merged[i])]
                      interval_change == Diff(interval)
                      closing_rate == RollingMean(interval_change, Window)
                  IN  [i \in 1..Len(merged) |->
                          [lap_number |-> merged[i].lap_number,
                           position_d1 |-> merged[i].position_d1,
                           position_d2 |-> merged[i].position_d2,
                           interval |-> interval[i],
                           interval_change |-> interval_change[i],
                           closing_rate |-> closing_rate[i]]]

calculate_interval_history(driver1_num, driver2_num) ==
    IntervalHistory(lap_data, driver1_num, driver2_num)

\* The trend of get_current_interval for a non-empty history.
Trend(history) ==
    IF Len(history) >= Window
    THEN LET recent_changes ==
                 TailMean([i \in 1..Len(history) |-> history[i].interval_change], Window)
         IN  IF MeanLess(recent_changes, -TrendThreshold) THEN "closing"
             ELSE IF MeanGreater(recent_changes, TrendThreshold) THEN "extending"
             ELSE "stable"
    ELSE "unknown"

\* IntervalCalculator.get_current_interval(driver1_num, driver2_num) on a store
CurrentInterval(df, driver1_num, driver2_num) ==
    LET history == IntervalHistory(df, driver1_num, driver2_num)
    IN  IF history = <<>>
        THEN [lap |-> 0, position_d1 |-> 0, position_d2 |-> 0,
              closing_rate |-> <<0, 1>>, current_interval |-> NaN, trend |-> "unknown"]
        ELSE LET latest == history[Len(history)]
             IN  [lap |-> latest.lap_number,
                  position_d1 |-> latest.position_d1,
                  position_d2 |-> latest.position_d2,
                  closing_rate |-> IF latest.closing_rate # NaN
                                   THEN latest.closing_rate ELSE <<0, 1>>,
                  current_interval |-> <<latest.interval>>,
                  trend |-> Trend(history)]

get_current_interval(driver1_num, driver2_num) ==
    CurrentInterval(lap_data, driver1_num, driver2_num)

(***************************************************************************)
(* Lap times, events and the single-point query.                           *)
(***************************************************************************)
MinLapTicks == 600     \* 60 s: lap times at or below are left out of the average
MaxLapTicks == 1500    \* 150 s: lap times at or above are left out of the average
PitMargin == 300       \* 30 s over the average: a pit stop

None == NaN

\* df.sort_values('lap_number'): ascending; rows of equal lap_number keep their order
SortByLap(df) ==
    LET Insert(s, r) ==
            LET k == Cardinality({j \in 1..Len(s) : s[j].lap_number <= r.lap_number})
            IN  SubSeq(s, 1, k) \o <<r>> \o SubSeq(s, k + 1, Len(s))
        F[i \in 0..Len(df)] == IF i = 0 THEN <<>> ELSE Insert(F[i - 1], df[i])
    IN  F[Len(df)]

\* the lap times of range(1, len(rows)): date_start of row i minus that of row i-1
LapTimes(rows) ==
    [i \in 1..(Len(rows) - 1) |-> rows[i + 1].date_start - rows[i].date_start]

ReasonableInclusive(lap_time) == MinLapTicks <= lap_time /\ lap_time <= MaxLapTicks

\* 60 < lap_time < 150
Reasonable(lap_time) == MinLapTicks < lap_time /\ lap_time < MaxLapTicks

RECURSIVE Sum(_)
Sum(x) == IF x = <<>> THEN 0 ELSE x[1] + Sum(Tail(x))

\* IntervalCalculator._get_average_lap_time(driver_num) on a store: None, or the mean
\* <<sum, count>> of the reasonable lap times between consecutive laps
AverageLapTime(df, driver_num) ==
    LET driver_laps == DriverLaps(df, driver_num)
    IN  IF Len(driver_laps) < 2 THEN None
        ELSE LET lap_times == SelectSeq(LapTimes(SortByLap(driver_laps)), Reasonable)
             IN  IF lap_times = <<>> THEN None ELSE <<Sum(lap_times), Len(lap_times)>>

\* the truth value Python gives an optional mean: false for None and for 0.0
Truthy(m) == m # None /\ m[1] # 0

OverMarginInclusive(lap_time, avg_lap) ==
    lap_time * avg_lap[2] >= avg_lap[1] + PitMargin * avg_lap[2]

\* lap_time > avg_lap + 30 for a mean avg_lap = <<sum, count>>
OverMargin(lap_time, avg_lap) == lap_time * avg_lap[2] > avg_lap[1] + PitMargin * avg_lap[2]

\* IntervalCalculator.detect_events(driver_num) on a store; a duration is the mean
\* <<lap_time * count - sum, count>>, that is lap_time - avg_lap
DetectEventsIn(rows, avg_lap) ==
    LET lap_times == LapTimes(rows)
        F[i \in 0..Len(lap_times)] ==
            IF i = 0 THEN <<>>
            ELSE IF Truthy(avg_lap) /\ OverMargin(lap_times[i], avg_lap)
                 THEN Append(F[i - 1],
                             [lap |-> rows[i + 1].lap_number,
                              type |-> "pit_stop",
                              duration |-> <<lap_times[i] * avg_lap[2] - avg_lap[1],
                                             avg_lap[2]>>])
                 ELSE F[i - 1]
    IN  F[Len(lap_times)]

DetectEvents(df, driver_num) ==
    LET driver_laps == DriverLaps(df, driver_num)
    IN  IF Len(driver_laps) < 2 THEN <<>>
        ELSE DetectEventsIn(SortByLap(driver_laps), AverageLapTime(df, driver_num))

detect_events(driver_num) == DetectEvents(lap_data, driver_num)

\* rows.loc[rows['date_start'].idxmax()]: the row of the latest crossing, the first
\* of them when several rows share it
LatestCrossing(rows) ==
    rows[CHOOSE i \in 1..Len(rows) :
            /\ \A j \in 1..Len(rows) : rows[j].date_start <= rows[i].date_start
            /\ \A j \in 1..(i - 1) : rows[j].date_start < rows[i].date_start]

LapFilterIgnored(df, lap) == df

\* lap_data[lap_data['lap_number'] == lap] when a lap is given, else all rows
LapFilter(df, lap) ==
    IF lap = None THEN df ELSE SelectSeq(df, LAMBDA r : r.lap_number = lap[1])

\* IntervalCalculator.calculate_interval_at_line(driver1_num, driver2_num, lap) on a
\* store; lap is None or <<lap number>>.  The value is None or a mean <<n, d>>
\* (ticks); via names the return statement taken.
IntervalAtLine(df, driver1_num, driver2_num, lap) ==
    IF df = <<>> THEN [value |-> None, via |-> "no data"]
    ELSE LET rows == LapFilter(df, lap)
             driver1_data == DriverLaps(rows, driver1_num)
             driver2_data == DriverLaps(rows, driver2_num)
         IN  IF driver1_data = <<>> \/ driver2_data = <<>>
             THEN [value |-> None, via |-> "no data"]
             ELSE LET latest_d1 == LatestCrossing(driver1_data)
                      latest_d2 == LatestCrossing(driver2_data)
                      lap_diff == latest_d1.lap_number - latest_d2.lap_number
                      avg_lap_time == AverageLapTime(df, driver2_num)
                  IN  IF lap_diff # 0
                      THEN IF Truthy(avg_lap_time)
                           THEN [value |-> <<lap_diff * avg_lap_time[1], avg_lap_time[2]>>,
                                 via |-> "estimate"]
                           ELSE [value |-> None, via |-> "no estimate"]
                      ELSE [value |-> <<latest_d1.date_start - latest_d2.date_start, 1>>,
                            via |-> "line"]

calculate_interval_at_line(driver1_num, driver2_num, lap) ==
    IntervalAtLine(lap_data, driver1_num, driver2_num, lap).value

(***************************************************************************)
(* RaceAnalyzer.  A result is [raised, value]: raised tells that the call  *)
(* ended in a ZeroDivisionError, value is None, <<integer>> or a ratio     *)
(* <<numerator, denominator>>.                                             *)
(***************************************************************************)
Abs(x) == IF x < 0 THEN -x ELSE x

\* int(n / d) of a ratio with d > 0: the integer part, towards zero
IntegerPart(q) == IF q[1] >= 0 THEN q[1] \div q[2] ELSE -((-q[1]) \div q[2])

Returned(v) == [value |-> v, raised |-> FALSE]
ZeroDivisionError == [value |-> None, raised |-> TRUE]

NotClosingStrict(closing_rate) == closing_rate > 0

\* closing_rate >= 0
NotClosing(closing_rate) == closing_rate >= 0

WithinRaceTruncated(catch_lap, total_laps) == IntegerPart(catch_lap) <= total_laps

\* catch_lap <= total_laps
WithinRace(catch_lap, total_laps) == catch_lap[1] <= total_laps * catch_lap[2]

\* RaceAnalyzer.predict_catch_point(current_interval, closing_rate, current_lap, total_laps)
PredictCatchPoint(current_interval, closing_rate, current_lap, total_laps) ==
    IF NotClosing(closing_rate) THEN Returned(None)
    ELSE IF closing_rate = 0 THEN ZeroDivisionError
    ELSE LET laps_to_catch == <<Abs(current_interval), Abs(closing_rate)>>
             catch_lap == <<current_lap * laps_to_catch[2] + laps_to_catch[1],
                            laps_to_catch[2]>>
         IN  IF WithinRace(catch_lap, total_laps)
             THEN Returned(<<IntegerPart(catch_lap)>>)
             ELSE Returned(None)

\* RaceAnalyzer.calculate_gap_percentage(interval, lap_time)
GapPercentage(interval, lap_time) ==
    IF lap_time <= 0 THEN Returned(<<0, 1>>)
    ELSE IF lap_time = 0 THEN ZeroDivisionError
    ELSE Returned(<<interval * 100, lap_time>>)

(***************************************************************************)
(* F1DataFetcher.  current_session_key is None or <<session key>>; drivers *)
(* and driver_numbers are the dicts, functions on the keys they hold.      *)
(***************************************************************************)
\* F1DataFetcher.__init__
NewFetcher == [current_session_key |-> None, drivers |-> <<>>, driver_numbers |-> <<>>]

\* the last record of a list among those at the indices S: in a dict comprehension
\* a later record replaces an earlier one of the same key
LastOf(data, S) == data[CHOOSE i \in S : \A j \in S : j <= i]

\* {d['driver_number']: d for d in data}
DriversDict(data) ==
    [n \in {data[i].driver_number : i \in 1..Len(data)} |->
        LastOf(data, {i \in 1..Len(data) : data[i].driver_number = n})]

\* {d['name_acronym']: d['driver_number'] for d in data}
DriverNumbersDict(data) ==
    [a \in {data[i].name_acronym : i \in 1..Len(data)} |->
        LastOf(data, {i \in 1..Len(data) : data[i].name_acronym = a}).driver_number]

\* if data:
StoreDrivers(data) == data # <<>>

\* F1DataFetcher._load_drivers, data being the answer to the drivers request
LoadDrivers(f, data) ==
    IF f.current_session_key = None THEN f
    ELSE IF StoreDrivers(data)
         THEN [f EXCEPT !.drivers = DriversDict(data),
                        !.driver_numbers = DriverNumbersDict(data)]
         ELSE f

\* F1DataFetcher.load_session(session_key): the fetcher afterwards and the value
\* returned
FetcherLoadSession(f, session_key, session_data, drivers_data) ==
    IF session_data = <<>> THEN [fetcher |-> f, returned |-> FALSE]
    ELSE [fetcher |-> LoadDrivers([f EXCEPT !.current_session_key = <<session_key>>],
                                  drivers_data),
          returned |-> TRUE]

(***************************************************************************)
(* Operations.                                                             *)
(***************************************************************************)
Init ==
    /\ lap_data = <<>>
    /\ position_data = <<>>
    /\ call = [data |-> <<>>, op |-> "init"]
    /\ latest_lap = {}
    /\ fetcher = NewFetcher

update_lap_data(new_data) ==
    /\ lap_data' = MergeLapData(lap_data, new_data)
    /\ latest_lap' = LatestAfter(latest_lap, new_data)
    /\ call' = [data |-> new_data, op |-> "update_lap_data"]
    /\ UNCHANGED <<position_data, fetcher>>

update_position_data(new_data) ==
    /\ position_data' = MergePositionData(position_data, new_data)
    /\ call' = [data |-> new_data, op |-> "update_position_data"]
    /\ UNCHANGED <<lap_data, latest_lap, fetcher>>

\* Free-form ingestion: any batch, in any order of laps.
Next ==
    \E new_data \in LapBatches :
        /\ Cardinality({LapKey(r) : r \in Rows(lap_data) \cup Rows(new_data)}) <= MaxRows
        /\ update_lap_data(new_data)

Spec == Init /\ [][Next]_vars

\* Ingestion of position reports.
NextPositions ==
    \E new_data \in PositionBatches :
        /\ Len(MergePositionData(position_data, new_data)) <= MaxRows
        /\ update_position_data(new_data)

SpecPositions == Init /\ [][NextPositions]_vars

\* A race followed lap by lap.
NextRace == \E new_data \in RaceBatches(lap_data) : update_lap_data(new_data)

SpecRace == Init /\ [][NextRace]_vars

\* A session loaded at once into the empty store (Load Session of the dashboard).
NextSession ==
    /\ lap_data = <<>>
    /\ \E new_data \in SessionFrames : update_lap_data(new_data)

SpecSession == Init /\ [][NextSession]_vars

\* Ingestion of frames with an empty lap_number cell.
NextMalformed ==
    \E new_data \in MalformedBatches :
        /\ Cardinality({LapKey(r) : r \in Rows(lap_data) \cup Rows(new_data)}) <= MaxRows
        /\ update_lap_data(new_data)

SpecMalformed == Init /\ [][NextMalformed]_vars

\* The "Load Session" button: fetcher.load_session(session_key) fails when the
\* sessions request comes back empty; otherwise the laps of the session are fetched
\* and handed to the calculator of st.session_state, which was created once.
LoadSession(session_key, session_data, drivers_data, laps) ==
    LET loaded == FetcherLoadSession(fetcher, session_key, session_data, drivers_data)
    IN  /\ fetcher' = loaded.fetcher
        /\ IF loaded.returned
           THEN /\ lap_data' = MergeLapData(lap_data, laps)
                /\ latest_lap' = LatestAfter(latest_lap, laps)
           ELSE UNCHANGED <<lap_data, latest_lap>>
        /\ call' = [data |-> session_key, op |-> "Load Session",
                    result |-> loaded.returned]
        /\ UNCHANGED position_data

\* The "Load Recording" button: recorder.load() reads the file; the calculator is
\* not touched.
LoadRecording(loaded) ==
    /\ call' = [data |-> "recorded", op |-> "Load Recording", result |-> loaded]
    /\ UNCHANGED <<lap_data, position_data, latest_lap, fetcher>>

\* Loading sessions and recordings one after another in one browser session.
NextLoads ==
    \/ \E k \in SessionKeys :
            \E session_data \in SessionsResponses(k), drivers_data \in DriversResponses(k),
               laps \in SessionLaps(k) :
                    LoadSession(k, session_data, drivers_data, laps)
    \/ \E loaded \in BOOLEAN : LoadRecording(loaded)

SpecLoads == Init /\ [][NextLoads]_vars

\* fetcher.load_session(session_key) with the answers of its two requests; the
\* drivers request is only made when the sessions request gave a session.
load_session(session_key, session_data, drivers_data) ==
    LET loaded == FetcherLoadSession(fetcher, session_key, session_data, drivers_data)
    IN  /\ fetcher' = loaded.fetcher
        /\ call' = [data |-> <<session_key, session_data, drivers_data>>,
                    op |-> "load_session",
                    result |-> loaded.returned,
                    before |-> fetcher]
        /\ UNCHANGED <<lap_data, position_data, latest_lap>>

\* Calls of load_session, every request succeeding or failing.
NextFetcher ==
    \E k \in SessionKeys :
        \E session_data \in SessionsResponses(k), drivers_data \in DriversResponses(k) :
            load_session(k, session_data, drivers_data)

SpecFetcher == Init /\ [][NextFetcher]_vars

predict_catch_point(current_interval, closing_rate, current_lap, total_laps) ==
    /\ call' = [data |-> <<current_interval, closing_rate, current_lap, total_laps>>,
                op |-> "predict_catch_point",
                result |-> PredictCatchPoint(current_interval, closing_rate,
                                             current_lap, total_laps)]
    /\ UNCHANGED <<lap_data, position_data, latest_lap, fetcher>>

calculate_gap_percentage(interval, lap_time) ==
    /\ call' = [data |-> <<interval, lap_time>>,
                op |-> "calculate_gap_percentage",
                result |-> GapPercentage(interval, lap_time)]
    /\ UNCHANGED <<lap_data, position_data, latest_lap, fetcher>>

\* Calls of the RaceAnalyzer functions.
NextAnalyzer ==
    \/ \E i \in CatchIntervals, r \in CatchRates, l \in CurrentLaps, n \in TotalLaps :
            predict_catch_point(i, r, l, n)
    \/ \E i \in CatchIntervals, t \in GapLapTimes : calculate_gap_percentage(i, t)

SpecAnalyzer == Init /\ [][NextAnalyzer]_vars

(***************************************************************************)
(* Properties of the lap store and of the interval series.                 *)
(***************************************************************************)
LapKeys(df) == {LapKey(r) : r \in Rows(df)}
HasLap(df, d, l) == <<d, l>> \in LapKeys(df)
CommonLaps(df, a, b) == {k[2] : k \in {x \in LapKeys(df) : x[1] = a /\ HasLap(df, b, x[2])}}
TheLap(df, d, l) == CHOOSE r \in Rows(df) : LapKey(r) = <<d, l>>

\* C1: after any sequence of update_lap_data calls the lap store holds exactly one
\* record for every (driver_number, lap_number) ever ingested, and it is the record
\* ingested last for that key.
LapStoreLastWriteWins ==
    /\ Rows(lap_data) = latest_lap
    /\ \A i, j \in 1..Len(lap_data) :
            LapKey(lap_data[i]) = LapKey(lap_data[j]) => i = j

\* a key was ingested twice in one batch with different records, next to other rows
LapOverwritten ==
    /\ call.op = "update_lap_data"
    /\ Len(call.data) = 2
    /\ LapKey(call.data[1]) = LapKey(call.data[2])
    /\ call.data[1] # call.data[2]
    /\ Len(lap_data) >= 2

\* C2: the interval series of every pair of different drivers is in ascending order of lap_number, however
\* the lap records were ingested.
SeriesAscending ==
    \A a, b \in Drivers :
        LET h == calculate_interval_history(a, b)
        IN  a # b => \A i, j \in 1..Len(h) : i < j => h[i].lap_number < h[j].lap_number

\* C3: the interval series of a pair has exactly one sample for every lap stored for
\* both drivers and none for any other lap, and the interval of a sample is the
\* second driver's crossing time minus the first driver's, positive exactly when the
\* first driver crossed earlier.
SeriesIsInnerJoin ==
    \A a, b \in Drivers :
        LET h == calculate_interval_history(a, b)
            common == CommonLaps(lap_data, a, b)
        IN  /\ \A i \in 1..Len(h) : h[i].lap_number \in common
            /\ \A l \in common : Cardinality({i \in 1..Len(h) : h[i].lap_number = l}) = 1
            /\ \A i \in 1..Len(h) :
                    LET ta == TheLap(lap_data, a, h[i].lap_number).date_start
                        tb == TheLap(lap_data, b, h[i].lap_number).date_start
                    IN  /\ h[i].interval = tb - ta
                        /\ (h[i].interval > 0) <=> (ta < tb)

\* a pair with a lap stored for the first driver only, and a common lap on which the
\* first driver crossed earlier
JoinDropsUnmatchedLap ==
    \E a, b \in Drivers :
        LET h == calculate_interval_history(a, b)
        IN  /\ a # b
            /\ \E l \in Laps : HasLap(lap_data, a, l) /\ ~HasLap(lap_data, b, l)
            /\ \E i \in 1..Len(h) : h[i].interval > 0

\* C4: for different drivers a and b the series of (a, b) and of (b, a) have the same length, and their i-th
\* samples are for the same lap with opposite intervals.
SeriesAntisymmetric ==
    \A a, b \in Drivers :
        LET hab == calculate_interval_history(a, b)
            hba == calculate_interval_history(b, a)
        IN  a # b =>
                /\ Len(hab) = Len(hba)
                /\ \A i \in 1..Len(hab) :
                        /\ hab[i].lap_number = hba[i].lap_number
                        /\ hab[i].interval = -hba[i].interval

\* C5: ingesting records identical to stored ones changes the result of no query on
\* a pair of different drivers.
ReingestChangesNoQuery ==
    [][(/\ call'.op = "update_lap_data"
        /\ call'.data # <<>>
        /\ Rows(call'.data) \subseteq Rows(lap_data))
       => \A a, b \in Drivers :
            a # b =>
                /\ IntervalHistory(lap_data', a, b) = IntervalHistory(lap_data, a, b)
                /\ CurrentInterval(lap_data', a, b) = CurrentInterval(lap_data, a, b)]_vars

\* C6: update_lap_data with an empty frame changes nothing in the lap store; with a
\* non-empty one, every stored record whose key is not in the batch stays as it is,
\* and no stored key is ever lost.
IngestLeavesOtherKeys ==
    [][call'.op = "update_lap_data"
       => /\ call'.data = <<>> => lap_data' = lap_data
          /\ \A r \in Rows(lap_data) :
                LapKey(r) \notin LapKeys(call'.data) => r \in Rows(lap_data')
          /\ LapKeys(lap_data) \subseteq LapKeys(lap_data')]_vars

\* a one-row batch was ingested into a store that holds rows with other keys
IngestBesideOtherKeys ==
    /\ call.op = "update_lap_data"
    /\ Len(call.data) = 1
    /\ Len(lap_data) >= 3

\* C7: after any sequence of update_position_data calls the position store holds at
\* most one record for every driver and instant, also when an instant already stored
\* is ingested again in raw form.
PositionStoreUniqueKeys ==
    \A i, j \in 1..Len(position_data) :
        (/\ position_data[i].driver_number = position_data[j].driver_number
         /\ position_data[i].date.instant = position_data[j].date.instant)
        => i = j

\* C8: for a pair with no common lap (empty store and drivers without records
\* included) the interval series is empty and get_current_interval is the sentinel:
\* no interval, lap 0, positions 0, closing rate 0.0, trend unknown.
NoCommonLapGivesSentinel ==
    \A a, b \in Drivers :
        CommonLaps(lap_data, a, b) = {}
        => /\ calculate_interval_history(a, b) = <<>>
           /\ get_current_interval(a, b) =
                [lap |-> 0, position_d1 |-> 0, position_d2 |-> 0,
                 closing_rate |-> <<0, 1>>, current_interval |-> NaN, trend |-> "unknown"]

\* both drivers have lap records, but none for the same lap
BothDriversNoCommonLap ==
    \E a, b \in Drivers :
        /\ DriverLaps(lap_data, a) # <<>>
        /\ DriverLaps(lap_data, b) # <<>>
        /\ CommonLaps(lap_data, a, b) = {}

(***************************************************************************)
(* Properties of the derived fields and of the trend.                      *)
(***************************************************************************)
\* the samples among the last Window of a history that have an interval_change
LastChanges(h) == {i \in 1..Len(h) : i > Len(h) - Window /\ h[i].interval_change # NaN}

RECURSIVE SumOfChanges(_, _)
SumOfChanges(h, S) ==
    IF S = {} THEN 0
    ELSE LET i == CHOOSE x \in S : TRUE
         IN  h[i].interval_change[1] + SumOfChanges(h, S \ {i})

\* C9: the trend of get_current_interval is 'unknown' for a series of fewer than 3
\* samples; otherwise it follows the mean of the interval_change values of the last 3
\* samples: 'closing' below -0.1 s, 'extending' above +0.1 s, 'stable' otherwise, so
\* also at exactly -0.1 s and +0.1 s.
TrendFollowsLastChanges ==
    \A a, b \in Drivers :
        LET h == calculate_interval_history(a, b)
            sum == SumOfChanges(h, LastChanges(h))
            count == Cardinality(LastChanges(h))
            trend == get_current_interval(a, b).trend
        IN  IF Len(h) < 3 THEN trend = "unknown"
            ELSE /\ count > 0
                 /\ trend = IF sum < -TrendThreshold * count THEN "closing"
                            ELSE IF sum > TrendThreshold * count THEN "extending"
                            ELSE "stable"

\* a series of four samples or more whose last three changes average exactly -0.1 s
TrendAtThreshold ==
    \E a, b \in Drivers :
        LET h == calculate_interval_history(a, b)
        IN  /\ Len(h) >= 4
            /\ SumOfChanges(h, LastChanges(h)) = -TrendThreshold * 3
            /\ get_current_interval(a, b).trend = "stable"

\* interval_change is absent for the first sample and interval[i] - interval[i-1]
\* for every other one
ChangeIsDifference(h) ==
    \A i \in 1..Len(h) :
        h[i].interval_change =
            IF i = 1 THEN NaN ELSE <<h[i].interval - h[i - 1].interval>>

\* the mean of the interval_change of sample i and of the two samples before it
MeanOfThreeChanges(h, i) ==
    <<(h[i].interval - h[i - 1].interval) + (h[i - 1].interval - h[i - 2].interval)
        + (h[i - 2].interval - h[i - 3].interval), 3>>

\* C10 as stated: interval_change is the difference to the previous sample, absent
\* for the first; closing_rate is the mean of interval_change over a trailing window
\* of 3 samples and is defined for the third sample and every later one.
ClosingRateFromThirdSample ==
    \A a, b \in Drivers :
        LET h == calculate_interval_history(a, b)
        IN  /\ ChangeIsDifference(h)
            /\ \A i \in 1..Len(h) :
                    /\ (h[i].closing_rate # NaN) <=> (i >= 3)
                    /\ i >= 4 => h[i].closing_rate = MeanOfThreeChanges(h, i)

\* C10: interval_change is the difference to the previous sample, absent for the
\* first; closing_rate is the mean of the interval_change of 3 consecutive samples
\* and is defined for the fourth sample and every later one: it is absent for the
\* first three, whose window holds the first sample's absent interval_change.
ClosingRateFromFourthSample ==
    \A a, b \in Drivers :
        LET h == calculate_interval_history(a, b)
        IN  /\ ChangeIsDifference(h)
            /\ \A i \in 1..Len(h) :
                    h[i].closing_rate = IF i >= 4 THEN MeanOfThreeChanges(h, i) ELSE NaN

\* a series in which the third sample has no closing_rate and the fourth has one
\* that is not zero
ClosingRateAppears ==
    \E a, b \in Drivers :
        LET h == calculate_interval_history(a, b)
        IN  /\ Len(h) >= 4
            /\ h[3].closing_rate = NaN
            /\ h[4].closing_rate # NaN
            /\ h[4].closing_rate[1] # 0

(***************************************************************************)
(* Properties of the lap times, the events and the single-point query.     *)
(***************************************************************************)
\* the laps stored for a driver, and the stored lap before lap l
LapsOf(df, d) == {k[2] : k \in {x \in LapKeys(df) : x[1] = d}}
PreviousLap(df, d, l) ==
    CHOOSE k \in LapsOf(df, d) : k < l /\ \A m \in LapsOf(df, d) : m < l => m <= k

\* the laps of a driver that have a stored lap before them, and the time from the
\* crossing of that lap to the crossing of lap l
TimedLaps(df, d) == {l \in LapsOf(df, d) : \E k \in LapsOf(df, d) : k < l}
LapTimeOf(df, d, l) ==
    TheLap(df, d, l).date_start - TheLap(df, d, PreviousLap(df, d, l)).date_start

RECURSIVE SumOfLapTimes(_, _, _)
SumOfLapTimes(df, d, S) ==
    IF S = {} THEN 0
    ELSE LET l == CHOOSE x \in S : TRUE
         IN  LapTimeOf(df, d, l) + SumOfLapTimes(df, d, S \ {l})

\* the laps whose lap time counts for the average: over 60 s and under 150 s
CountedLaps(df, d) ==
    {l \in TimedLaps(df, d) :
        LapTimeOf(df, d, l) > MinLapTicks /\ LapTimeOf(df, d, l) < MaxLapTicks}

\* C11: _get_average_lap_time takes the crossing-time differences of the driver's
\* records consecutive in lap_number, leaves out every difference >= 150 s or
\* <= 60 s and returns the mean of the others; it returns None when the driver has
\* fewer than 2 lap records or no difference is left.
AverageOfReasonableLapTimes ==
    \A d \in Drivers :
        LET counted == CountedLaps(lap_data, d)
            avg == AverageLapTime(lap_data, d)
        IN  IF Cardinality(LapsOf(lap_data, d)) < 2 \/ counted = {}
            THEN avg = None
            ELSE avg = <<SumOfLapTimes(lap_data, d, counted), Cardinality(counted)>>

\* some row of the driver is stored after a row of a later lap of the driver
OutOfLapOrder(df, d) ==
    \E i \in 1..Len(df) :
        /\ df[i].driver_number = d
        /\ \E j \in 1..(i - 1) :
                df[j].driver_number = d /\ df[j].lap_number > df[i].lap_number

\* crossings at 0, 90, 91 and 260 s, not stored in lap order: the average is 90.0 s
AverageOfTheExample ==
    /\ OutOfLapOrder(lap_data, 1)
    /\ {<<r.lap_number, r.date_start>> : r \in Rows(DriverLaps(lap_data, 1))}
            = {<<1, 0>>, <<2, 900>>, <<3, 910>>, <<4, 2600>>}
    /\ AverageLapTime(lap_data, 1) = <<900, 1>>

\* C12: detect_events reports a pit_stop for exactly the lap times (between records
\* consecutive in lap_number) that are more than 30 s over the average lap time,
\* with the lap_number of the later record and the excess over the average as
\* duration, in ascending order of lap; it reports nothing when there is no average
\* or fewer than 2 records.
PitStopsAreLongLaps ==
    \A d \in Drivers :
        LET events == detect_events(d)
            avg == AverageLapTime(lap_data, d)
            long == IF avg = None THEN {}
                    ELSE {l \in TimedLaps(lap_data, d) :
                            LapTimeOf(lap_data, d, l) * avg[2] > avg[1] + PitMargin * avg[2]}
        IN  /\ {events[i].lap : i \in 1..Len(events)} = long
            /\ \A i, j \in 1..Len(events) : i < j => events[i].lap < events[j].lap
            /\ \A i \in 1..Len(events) :
                    /\ events[i].type = "pit_stop"
                    /\ events[i].duration =
                            <<LapTimeOf(lap_data, d, events[i].lap) * avg[2] - avg[1], avg[2]>>

\* rows not stored in lap order, a lap of 150 s that is just 30 s over the average
\* of 120 s and no pit stop, and a lap of 169 s that is one
PitStopBesideMarginalLap ==
    LET events == detect_events(1)
    IN  /\ OutOfLapOrder(lap_data, 1)
        /\ AverageLapTime(lap_data, 1) = <<1200, 1>>
        /\ \E l \in TimedLaps(lap_data, 1) : LapTimeOf(lap_data, 1, l) = 1500
        /\ Len(events) = 1
        /\ events[1].duration = <<490, 1>>

(***************************************************************************)
(* Properties of the RaceAnalyzer functions.                               *)
(***************************************************************************)
\* C13: with closing_rate < 0 predict_catch_point returns the integer part of
\* catch_lap = current_lap + |current_interval / closing_rate| when catch_lap is at
\* most total_laps and None when it is more; with closing_rate >= 0 it returns None.
\* Interval -5.0 s, rate -0.5 s a lap, lap 10: 20 of 58 laps, None of 15 laps.
CatchLapWithinRace ==
    call.op = "predict_catch_point"
    => LET interval == Abs(call.data[1])
           rate == Abs(call.data[2])
           lap == call.data[3]
           total == call.data[4]
       IN  /\ ~call.result.raised
           /\ call.data[2] >= 0 => call.result.value = None
           /\ call.data[2] < 0
                => call.result.value =
                        IF lap * rate + interval <= total * rate
                        THEN <<lap + (interval \div rate)>>
                        ELSE None
           /\ call.data = <<-50, -5, 10, 58>> => call.result.value = <<20>>
           /\ call.data = <<-50, -5, 10, 15>> => call.result.value = None

\* 1.5 s behind, closing by 0.2 s a lap on lap 10: caught 7.5 laps later, on lap 17
\* of 58
CatchOnFractionalLap ==
    /\ call.op = "predict_catch_point"
    /\ call.data = <<-15, -2, 10, 58>>
    /\ call.result = Returned(<<17>>)

\* C14: no call divides by zero: predict_catch_point with closing_rate 0 returns
\* None for every current_interval, and calculate_gap_percentage returns 0.0 for
\* every lap_time <= 0 and interval / lap_time * 100 otherwise.
NoDivisionByZero ==
    /\ call.op = "predict_catch_point"
        => /\ ~call.result.raised
           /\ call.data[2] = 0 => call.result.value = None
    /\ call.op = "calculate_gap_percentage"
        => /\ ~call.result.raised
           /\ call.result.value =
                IF call.data[2] <= 0 THEN <<0, 1>>
                ELSE <<call.data[1] * 100, call.data[2]>>

\* predict_catch_point was called with closing_rate 0 and a car behind
ZeroRateCall ==
    /\ call.op = "predict_catch_point"
    /\ call.data[2] = 0
    /\ call.data[1] < 0
    /\ call.result = Returned(None)

(***************************************************************************)
(* Properties of ingestion and of loading.                                 *)
(***************************************************************************)
\* C15: a lap record ingested without its lap_number is rejected: it never becomes
\* part of the store (the well-formed records of its batch are ingested, and the
\* drop is signalled).
MalformedLapRejected ==
    \A i \in 1..Len(lap_data) : lap_data[i].lap_number # MissingLap

\* C16: the store is cleared when a session or a recording is loaded: after a
\* successful load of a session every lap record of the store is of that session,
\* and after a successful load of a recording no lap record of a session is left.
LoadClearsStore ==
    /\ (call.op = "Load Session" /\ call.result)
        => \A i \in 1..Len(lap_data) : lap_data[i].session_key = call.data
    /\ (call.op = "Load Recording" /\ call.result) => lap_data = <<>>

(***************************************************************************)
(* Properties of the single-point query and of the snapshot.               *)
(***************************************************************************)
LatestLapOf(df, d) == LatestCrossing(DriverLaps(df, d)).lap_number
HighestLap(S) == CHOOSE l \in S : \A m \in S : m <= l

\* C17: when both drivers' latest records are on the same lap,
\* calculate_interval_at_line(a, b) is positive exactly when a crossed the line
\* earlier than b, and equals the interval of calculate_interval_history(a, b) for
\* that lap.
LineFollowsSignConvention ==
    \A a, b \in Drivers :
        LET r == IntervalAtLine(lap_data, a, b, None)
            h == calculate_interval_history(a, b)
        IN  (a # b /\ r.via = "line")
            => LET l == LatestLapOf(lap_data, a)
               IN  /\ r.value[1] > 0
                        <=> TheLap(lap_data, a, l).date_start < TheLap(lap_data, b, l).date_start
                   /\ \A i \in 1..Len(h) :
                        h[i].lap_number = l => r.value = <<h[i].interval, 1>>

\* C18: whenever the series of a pair is not empty, get_current_interval returns the
\* lap, interval and positions of the highest lap stored for both drivers, in
\* whatever order the records were ingested.
SnapshotIsHighestCommonLap ==
    \A a, b \in Drivers :
        LET common == CommonLaps(lap_data, a, b)
            s == get_current_interval(a, b)
        IN  (a # b /\ common # {})
            => LET l == HighestLap(common)
                   x == TheLap(lap_data, a, l)
                   y == TheLap(lap_data, b, l)
               IN  /\ s.lap = l
                   /\ s.current_interval = <<y.date_start - x.date_start>>
                   /\ s.position_d1 = x.position
                   /\ s.position_d2 = y.position

\* C19: when the two drivers' latest records are on different laps,
\* calculate_interval_at_line returns lap_diff times the average lap time of the
\* driver on the lower lap, whichever argument that is, and None when that driver
\* has no average.
FallbackUsesTrailingAverage ==
    \A a, b \in Drivers :
        (/\ a # b
         /\ DriverLaps(lap_data, a) # <<>>
         /\ DriverLaps(lap_data, b) # <<>>
         /\ LatestLapOf(lap_data, a) # LatestLapOf(lap_data, b))
        => LET lap_diff == LatestLapOf(lap_data, a) - LatestLapOf(lap_data, b)
               trailing == IF lap_diff < 0 THEN a ELSE b
               avg == AverageLapTime(lap_data, trailing)
               v == calculate_interval_at_line(a, b, None)
           IN  IF avg = None THEN v = None
               ELSE v # None /\ v[1] * avg[2] = lap_diff * avg[1] * v[2]

\* C20: with a lap argument calculate_interval_at_line never takes the average lap
\* time branch: it returns None when one of the drivers has no record of that lap
\* and else the difference of the two crossing times of that lap.
LapArgumentNeverEstimates ==
    \A a, b \in Drivers, l \in 1..PaceLaps :
        LET r == IntervalAtLine(lap_data, a, b, <<l>>)
        IN  /\ r.via \in {"no data", "line"}
            /\ r.value =
                    IF HasLap(lap_data, a, l) /\ HasLap(lap_data, b, l)
                    THEN <<TheLap(lap_data, a, l).date_start
                                - TheLap(lap_data, b, l).date_start, 1>>
                    ELSE None

\* the query without a lap estimates, the query for lap 2 measures, the query for
\* lap 3 has no record of car 2
EstimateOnlyWithoutLap ==
    /\ IntervalAtLine(lap_data, 1, 2, None).via = "estimate"
    /\ IntervalAtLine(lap_data, 1, 2, <<2>>).via = "line"
    /\ IntervalAtLine(lap_data, 1, 2, <<2>>).value[1] # 0
    /\ IntervalAtLine(lap_data, 1, 2, <<3>>) = [value |-> None, via |-> "no data"]

(***************************************************************************)
(* Properties of the fetcher.                                              *)
(***************************************************************************)
\* C21: after any sequence of load_session calls, whenever current_session_key is k
\* the drivers and driver_numbers maps hold only drivers returned for session k (or
\* are empty), and a load_session call that returned False left
\* current_session_key, drivers and driver_numbers as they were.
DriversOfCurrentSession ==
    /\ fetcher.current_session_key # None
        => /\ \A n \in DOMAIN fetcher.drivers :
                    fetcher.drivers[n].session_key = fetcher.current_session_key[1]
           /\ \A a \in DOMAIN fetcher.driver_numbers :
                    /\ fetcher.driver_numbers[a] \in DOMAIN fetcher.drivers
                    /\ fetcher.drivers[fetcher.driver_numbers[a]].name_acronym = a
    /\ (call.op = "load_session" /\ ~call.result) => fetcher = call.before

\* a load_session call that returned False left the fetcher as it was
FailedLoadLeavesFetcher ==
    (call.op = "load_session" /\ ~call.result) => fetcher = call.before

\* the drivers and driver_numbers maps always name the same drivers
DriverMapsAgree ==
    /\ \A a \in DOMAIN fetcher.driver_numbers :
            /\ fetcher.driver_numbers[a] \in DOMAIN fetcher.drivers
            /\ fetcher.drivers[fetcher.driver_numbers[a]].name_acronym = a
    /\ \A n \in DOMAIN fetcher.drivers :
            fetcher.drivers[n].name_acronym \in DOMAIN fetcher.driver_numbers

====
